---- MODULE Spec2Model ----
(***************************************************************************)
(* Model of the sequencer consensus worker of the avail settlement layer:  *)
(* SequencerWorker.Run, SequencerWorker.writeBlock,                        *)
(* SequencerWorker.writeTransactions and NewSequencer                      *)
(* (src/consensus/avail/mechanism.go).                                     *)
(*                                                                         *)
(* The worker is one goroutine; its position is pc.  The environment is    *)
(* the DA block stream, the staking registry (changed by staking           *)
(* transactions of other parties), the close signal, and the results of    *)
(* the collaborators the worker calls.                                     *)
(***************************************************************************)
EXTENDS Integers, Sequences, FiniteSets, TLC

\* ---------------------------------------------------------------- bounds
\* Highest DA block number the stream delivers.
MaxTick == 2
\* Most settlement blocks carried by one DA block.
MaxExtract == 1
\* Most transactions pending in the pool when the worker starts.
MaxPool == 3
\* Longest configured minimum block interval, in seconds.
MaxBlockTime == 2
\* Latest reading of the wall clock, in half seconds.
MaxClock == 6
\* Most headers stamped one on top of the other.
MaxChain == 2

\* ------------------------------------------------------------- constants
Nil == "nil"

\* Staked accounts that may appear in the registry; nodeAddr is sw.nodeAddr.
Addresses == {"A", "B", "C"}
nodeAddr == "B"

\* Transactions that may be pending, and the gas each one asks for.
Txs == {1, 2, 3, 4}
TxGas == <<50, 60, 5, 120>>

\* The value CalculateGasLimit returns for the candidate header.
BlockGasLimit == 100

\* ------------------------------------------------------------- sequences
Range(s) == {s[i] : i \in 1..Len(s)}

\* Sequences over S without repetition, of length at most n.
DistinctSeqs(S, n) ==
    UNION {{s \in [1..k -> S] : \A i, j \in 1..k : i # j => s[i] # s[j]} : k \in 0..n}

Without(s, x) == SelectSeq(s, LAMBDA y : y # x)

RECURSIVE SumGas(_)
SumGas(s) == IF s = <<>> THEN 0 ELSE TxGas[Head(s)] + SumGas(Tail(s))

\* First position of call c in trace tr, 0 when it was not called.
IndexOf(tr, c) ==
    IF c \in Range(tr) THEN CHOOSE i \in 1..Len(tr) : tr[i] = c /\ \A j \in 1..(i-1) : tr[j] # c
    ELSE 0

Count(tr, c) == Cardinality({i \in 1..Len(tr) : tr[i] = c})

\* ----------------------------------------------------------------- state
VARIABLES
    pc,            \* position of the worker goroutine in Run / writeBlock
    builtWith,     \* how the SequencerWorker value was constructed
    closeCh,       \* the field sw.closeCh: Nil or "ch" (the caller's channel)
    closed,        \* the caller's close signal has been triggered
    runResult,     \* what Run returned: Nil while it has not returned
    unstakeCalls,  \* number of calls of stakingNode.UnStake
    apq,           \* the registry's active sequencer set, in rotation order
    daNumber,      \* number of the last DA block the stream delivered
    t,             \* the atomic clock t of Run
    head,          \* number of the local chain's current header
    pending,       \* transactions in the pool, in priority order
    \* ---- the current tick
    trace,         \* collaborator calls made in the tick, in order
    logged,        \* error-severity log sites hit in the tick
    extraction,    \* result of block.FromAvail in the tick
    edgeBlks,      \* number of settlement blocks extracted in the tick
    slashResult,   \* result of CheckAndSlash in the tick
    staked,        \* result of Contains in the tick
    sequencers,    \* result of Get in the tick (<<>> when none was returned)
    seed,          \* value of t the registry querier loaded in the tick, 0 when none
    \* ---- the current production attempt
    parent,        \* number of the parent header passed to writeBlock
    wbResult,      \* what writeBlock returned in the tick
    sendStatus,    \* what SendAndWaitForStatus returned in the attempt
    poolAtStart,   \* the pool's pending transactions when writeBlock was called
    gasLimit,      \* gasLimit of writeBlock
    gasPool,       \* gas left in the open transition
    executables,   \* transactions Peek has still to offer in this run
    successful,    \* the slice successful of writeTransactions
    poolActs,      \* <<tx, outcome, action>> for every pool action of the run
    stopTx,        \* transaction that failed with gas limit reached, 0 when none
    peeks,         \* number of calls of Peek in the selection run
    \* ---- own blocks on the DA chain
    daOnly,        \* number of the own block included on DA whose local write
                   \* failed and that the stream has not delivered; 0 = none
    carried,       \* number of that block when this tick's DA block carries it
    reextracted,   \* what the write of the carried block did in this tick
    \* ---- the timestamp of the candidate header
    blockTime,     \* sw.blockTime, in seconds
    parentTs,      \* parent.Timestamp, in seconds
    now1,          \* time.Now() of the comparison, in half seconds
    now2,          \* time.Now() of the assignment, in half seconds
    headerTs,      \* header.Timestamp, in seconds; 0 before it is set
    stamped        \* number of headers stamped on top of the first parent

tickVars == <<trace, logged, extraction, edgeBlks, slashResult, staked, sequencers, seed>>
runVars == <<gasLimit, gasPool, executables, successful, poolActs, stopTx, peeks>>
daVars == <<daOnly, carried, reextracted>>
timeVars == <<blockTime, parentTs, now1, now2, headerTs, stamped>>
wbVars == <<parent, wbResult, sendStatus, poolAtStart>>
envVars == <<builtWith, closeCh, closed, apq>>
vars == <<pc, builtWith, closeCh, closed, runResult, unstakeCalls, apq, daNumber, t,
          head, pending, trace, logged, extraction, edgeBlks, slashResult, staked, sequencers,
          parent, wbResult, sendStatus, gasLimit, gasPool, executables, successful,
          poolActs, stopTx, seed, poolAtStart, peeks, blockTime, parentTs, now1, now2,
          headerTs, stamped, daOnly, carried, reextracted>>

\* ----------------------------------------------------------- construction
\* NewSequencer copies every argument into the struct except closeCh, so the
\* field keeps its zero value; a struct literal may set it.
NewSequencer(ch) == Nil
StructLiteral(ch) == ch

WorkerInit ==
    /\ pc = "start"
    /\ builtWith \in {"NewSequencer", "literal"}
    /\ closeCh = IF builtWith = "NewSequencer" THEN NewSequencer("ch") ELSE StructLiteral("ch")
    /\ closed = FALSE
    /\ runResult = Nil
    /\ unstakeCalls = 0
    /\ apq \in DistinctSeqs(Addresses, Cardinality(Addresses))
    /\ daNumber = 0
    /\ t = 0
    /\ head = 0
    /\ pending \in DistinctSeqs(Txs, MaxPool)
    /\ trace = <<>>
    /\ logged = {}
    /\ extraction = [n |-> 0, err |-> Nil]
    /\ edgeBlks = 0
    /\ slashResult = Nil
    /\ staked = Nil
    /\ sequencers = <<>>
    /\ parent = 0
    /\ wbResult = Nil
    /\ sendStatus = Nil
    /\ gasLimit = 0
    /\ gasPool = 0
    /\ executables = <<>>
    /\ successful = <<>>
    /\ poolActs = <<>>
    /\ stopTx = 0
    /\ seed = 0
    /\ poolAtStart = <<>>
    /\ peeks = 0
    /\ daOnly = 0
    /\ carried = 0
    /\ reextracted = Nil

\* The timestamps are followed in TimeSpec; here they stay as constructed.
TimeIdle ==
    /\ blockTime = 1
    /\ parentTs = 0
    /\ now1 = 0
    /\ now2 = 0
    /\ headerTs = 0
    /\ stamped = 0

Init == WorkerInit /\ TimeIdle

\* ------------------------------------------------------------ environment
\* The caller triggers the close signal it passed to the constructor.
Close ==
    /\ ~closed
    /\ closed' = TRUE
    /\ UNCHANGED <<pc, builtWith, closeCh, runResult, unstakeCalls, apq, daNumber, t, head,
                   pending, tickVars, wbVars, runVars,
                   timeVars, daVars>>

\* A staking or slashing transaction of some party changes the registry.  The
\* worker sees the registry only through its queries, so a change is taken
\* where a query is the worker's next step.
StakeChange ==
    /\ pc \in {"waitForStaked", "staked", "get"}
    /\ \E s \in DistinctSeqs(Addresses, Cardinality(Addresses)) :
          /\ s # apq
          /\ apq' = s
    /\ UNCHANGED <<pc, builtWith, closeCh, closed, runResult, unstakeCalls, daNumber, t, head,
                   pending, tickVars, wbVars, runVars,
                   timeVars, daVars>>

\* ------------------------------------------------------- Run: the preamble
\* GetBalance and FindCallIndex; an error of either is returned by Run.
RunStart ==
    /\ pc = "start"
    /\ \E r \in {"balance_err", "callidx_err", "ok"} :
          IF r = "ok"
          THEN /\ pc' = "waitForStaked"
               /\ runResult' = runResult
          ELSE /\ pc' = "done"
               /\ runResult' = r
    /\ UNCHANGED <<envVars, unstakeCalls, daNumber, t, head, pending, tickVars, wbVars,
                   runVars,
                   timeVars, daVars>>

\* waitForStakedSequencer returns once the local address is staked; the
\* block stream is opened after it.
WaitForStakedSequencer ==
    /\ pc = "waitForStaked"
    /\ nodeAddr \in Range(apq)
    /\ pc' = "select"
    /\ UNCHANGED <<envVars, runResult, unstakeCalls, daNumber, t, head, pending, tickVars,
                   wbVars, runVars,
                   timeVars, daVars>>

\* --------------------------------------------------- Run: one tick, front
\* What block.FromAvail may return: the number of blocks and the error.
ExtractionResults ==
    {[n |-> 0, err |-> "ErrNoExtrinsicFound"], [n |-> 0, err |-> "decode"]}
    \cup {[n |-> k, err |-> e] : k \in 1..MaxExtract, e \in {Nil, "decode"}}

\* The condition of the error log of the extraction.
ExtractionLogsError(r) == r.n = 0 /\ r.err # Nil

\* An extraction error that ends the tick also when nothing was found.
ExtractionSkipsTickOnAnyError(r) == r.n = 0 /\ r.err # Nil

\* The condition under which the extraction error ends the tick.
ExtractionSkipsTick(r) == r.n = 0 /\ r.err # Nil /\ r.err # "ErrNoExtrinsicFound"

\* A store that records the number before the one received.
StoredOffByOne(n) == n - 1

\* t.Store(int64(blk.Block.Header.Number)): the value t holds after it.
Stored(n) == n

\* case blk := <-availBlockStream.Chan(): t.Store, then block.FromAvail.
\* The DA block that holds extracted blocks is the one that carries the own
\* block still awaited from the DA chain.
Carries(r) == daOnly # 0 /\ r.n >= 1

RecvBlock ==
    /\ pc = "select"
    /\ \E n \in (daNumber + 1)..MaxTick, r \in ExtractionResults :
          /\ daNumber' = n
          /\ t' = Stored(n)
          /\ extraction' = r
          /\ edgeBlks' = r.n
          /\ trace' = <<"Store", "FromAvail">>
          /\ logged' = IF ExtractionLogsError(r) THEN {"extract"} ELSE {}
          /\ pc' = IF ExtractionSkipsTick(r) THEN "select" ELSE "fraud"
          /\ carried' = IF Carries(r) THEN daOnly ELSE 0
          /\ daOnly' = IF Carries(r) THEN 0 ELSE daOnly
    /\ reextracted' = Nil
    /\ slashResult' = Nil
    /\ staked' = Nil
    /\ sequencers' = <<>>
    /\ parent' = 0
    /\ wbResult' = Nil
    /\ sendStatus' = Nil
    /\ gasLimit' = 0
    /\ gasPool' = 0
    /\ executables' = <<>>
    /\ successful' = <<>>
    /\ poolActs' = <<>>
    /\ stopTx' = 0
    /\ seed' = 0
    /\ poolAtStart' = <<>>
    /\ peeks' = 0
    /\ UNCHANGED <<envVars, runResult, unstakeCalls, head, pending,
                   timeVars>>

\* A tick that goes on to the leader check whatever CheckAndSlash returned.
AfterSlashIgnoringError(err) == "staked"

\* Where the tick goes after CheckAndSlash.
AfterSlash(err) == IF err THEN "select" ELSE "staked"

\* The extracted blocks are written to the local chain (the result of each
\* write is ignored), then both fraud operations run.
\* The extracted blocks the local chain can take: a carried block extends
\* the chain only while its parent is still the head.
Writable == IF carried # 0 /\ carried # head + 1 THEN 0 ELSE edgeBlks

FraudCheck ==
    /\ pc = "fraud"
    /\ \E written \in 0..Writable, slashErr \in BOOLEAN :
          /\ head' = head + written
          /\ reextracted' = IF carried = 0 THEN Nil
                            ELSE IF written >= 1 THEN "written" ELSE "not_written"
          /\ trace' = trace \o <<"CheckAndSetFraudBlock", "CheckAndSlash">>
          /\ slashResult' = IF slashErr THEN "err" ELSE "ok"
          /\ pc' = AfterSlash(slashErr)
    /\ UNCHANGED <<envVars, runResult, unstakeCalls, daNumber, t, pending, logged, extraction,
                   edgeBlks, staked, sequencers, wbVars, runVars,
                   seed,
                   timeVars, daOnly, carried>>

\* ------------------------------------------------ Run: the leader check
\* A tick that queries the active set whatever Contains returned.
AfterContainsUnchecked(r) == "get"

\* Where the tick goes after Contains returned r.
AfterContains(r) == IF r = "yes" THEN "get" ELSE "select"

\* activeSequencersQuerier.Contains(sw.nodeAddr): an error, or membership.
CheckStaked ==
    /\ pc = "staked"
    /\ \E r \in {"err", IF nodeAddr \in Range(apq) THEN "yes" ELSE "no"} :
          /\ staked' = r
          /\ logged' = IF r = "yes" THEN logged
                       ELSE IF r = "no" THEN logged \cup {"not_staked"}
                       ELSE logged \cup {"staked_err"}
          /\ pc' = AfterContains(r)
    /\ trace' = Append(trace, "Contains")
    /\ seed' = t
    /\ UNCHANGED <<envVars, runResult, unstakeCalls, daNumber, t, head, pending, extraction,
                   edgeBlks, slashResult, sequencers, wbVars, runVars,
                   timeVars, daVars>>

\* A turn test on the last element of the set instead of the first.
IsMyTurnLast(seq, addr) == seq[Len(seq)] = addr

\* A turn test on membership of the set instead of its first element.
IsMyTurnAnyMember(seq, addr) == addr \in Range(seq)

\* bytes.Equal(sequencers[0].Bytes(), sw.nodeAddr.Bytes())
IsMyTurn(seq, addr) == seq[1] = addr

\* A worker that quits, as its log message says, when Get fails.
AfterGetErrorQuitting == "done"

\* Where the tick goes after an error of Get: continue.
AfterGetError == "select"

\* activeSequencersQuerier.Get() returned an error: the tick ends.
GetSequencersError ==
    /\ pc = "get"
    /\ trace' = Append(trace, "Get")
    /\ logged' = logged \cup {"get_err"}
    /\ pc' = AfterGetError
    /\ UNCHANGED <<envVars, runResult, unstakeCalls, daNumber, t, head, pending, extraction,
                   edgeBlks, slashResult, staked, sequencers, wbVars, runVars,
                   seed,
                   timeVars, daVars>>

\* Get() returned the empty set: panic("no staked sequencers").
GetSequencersPanic ==
    /\ pc = "get"
    /\ apq = <<>>
    /\ sequencers' = apq
    /\ trace' = Append(trace, "Get")
    /\ pc' = "panic"
    /\ UNCHANGED <<envVars, runResult, unstakeCalls, daNumber, t, head, pending, logged,
                   extraction, edgeBlks, slashResult, staked, wbVars, runVars,
                   seed,
                   timeVars, daVars>>

\* Get() returned a set headed by the local address: writeBlock is called
\* on the current header.
MyTurn ==
    /\ pc = "get"
    /\ apq # <<>>
    /\ IsMyTurn(apq, nodeAddr)
    /\ sequencers' = apq
    /\ parent' = head
    /\ poolAtStart' = pending
    /\ trace' = trace \o <<"Get", "writeBlock">>
    /\ pc' = "wb_build"
    /\ UNCHANGED <<envVars, runResult, unstakeCalls, daNumber, t, head, pending, logged,
                   extraction, edgeBlks, slashResult, staked, wbResult, sendStatus, runVars,
                   seed,
                   timeVars, daVars>>

\* Get() returned a set headed by another address: the round is skipped.
NotMyTurn ==
    /\ pc = "get"
    /\ apq # <<>>
    /\ ~IsMyTurn(apq, nodeAddr)
    /\ sequencers' = apq
    /\ trace' = Append(trace, "Get")
    /\ pc' = "select"
    /\ UNCHANGED <<envVars, runResult, unstakeCalls, daNumber, t, head, pending, logged,
                   extraction, edgeBlks, slashResult, staked, wbVars, runVars,
                   seed,
                   timeVars, daVars>>

\* ------------------------------------------------------- Run: the shutdown
\* A receive from a nil channel never proceeds; from a closed one it does.
CloseReady(ch, isClosed) == ch # Nil /\ isClosed

\* A worker that also watches the close signal while it waits for the DA
\* chain to include the candidate block.
ShutdownPreempting ==
    /\ pc \in {"select", "wb_send"}
    /\ CloseReady(closeCh, closed)
    /\ unstakeCalls' = unstakeCalls + 1
    /\ \E r \in {"returned_nil", "unstake_err"} : runResult' = r
    /\ pc' = "done"
    /\ UNCHANGED <<envVars, daNumber, t, head, pending, tickVars, wbVars, runVars,
                   timeVars, daVars>>

\* case <-sw.closeCh: UnStake, and Run returns its error or nil.
Shutdown ==
    /\ pc = "select"
    /\ CloseReady(closeCh, closed)
    /\ unstakeCalls' = unstakeCalls + 1
    /\ \E r \in {"returned_nil", "unstake_err"} : runResult' = r
    /\ pc' = "done"
    /\ UNCHANGED <<envVars, daNumber, t, head, pending, tickVars, wbVars, runVars,
                   timeVars, daVars>>

\* ------------------------------------------------------------- writeBlock
\* writeBlock returns err to Run, which logs it and waits for the next tick.
\* CalculateGasLimit, AssignExtraValidators and BeginTxn: an error of any of
\* them is returned at once; otherwise the transition is opened with the
\* gas limit and the pool is prepared for a selection run.
BuildHeader ==
    /\ pc = "wb_build"
    /\ \E r \in {"gas_err", "extra_err", "begin_err", "ok"} :
          /\ trace' = trace \o
                (CASE r = "gas_err" -> <<"CalculateGasLimit">>
                   [] r = "extra_err" -> <<"CalculateGasLimit", "AssignExtraValidators">>
                   [] OTHER -> <<"CalculateGasLimit", "AssignExtraValidators", "BeginTxn">>)
          /\ IF r = "ok"
             THEN /\ gasLimit' = BlockGasLimit
                  /\ gasPool' = BlockGasLimit
                  /\ executables' = pending
                  /\ pc' = "wb_select"
                  /\ UNCHANGED <<wbResult, logged>>
             ELSE /\ wbResult' = r
                  /\ logged' = logged \cup {"mine"}
                  /\ pc' = "select"
                  /\ UNCHANGED <<gasLimit, gasPool, executables>>
    /\ UNCHANGED <<envVars, runResult, unstakeCalls, daNumber, t, head, pending, extraction,
                   edgeBlks, slashResult, staked, sequencers, parent, sendStatus, successful,
                   poolActs, stopTx,
                   seed, poolAtStart, peeks,
                   timeVars, daVars>>

\* ------------------------------------------------------ writeTransactions
\* An overflow test against the gas left in the block.
ExceedsRemainingGas(tx, limit) == TxGas[tx] > gasPool

\* tx.ExceedsBlockGasLimit(gasLimit)
ExceedsBlockGasLimit(tx, limit) == TxGas[tx] > limit

\* What transition.Write(tx) may return with pool gas left in the block: a
\* transaction that does not fit is never applied, one that fits does not
\* fail with gas limit reached.
WriteOutcomes(tx, pool) ==
    IF TxGas[tx] > pool THEN {"gas_limit_reached", "recoverable", "unknown"}
    ELSE {"ok", "recoverable", "unknown"}

\* A classification that includes the transaction that reached the gas limit.
ClassifyGasLimitAsSuccess(outcome) ==
    CASE outcome = "ok" -> "pop"
      [] outcome = "gas_limit_reached" -> "pop"
      [] outcome = "recoverable" -> "demote"
      [] OTHER -> "drop"

\* A classification that drops on a recoverable failure.
ClassifyRecoverableAsDrop(outcome) ==
    CASE outcome = "ok" -> "pop"
      [] outcome = "gas_limit_reached" -> "stop"
      [] OTHER -> "drop"

\* The pool action writeTransactions takes for the result of Write.
Classify(outcome) ==
    CASE outcome = "ok" -> "pop"
      [] outcome = "gas_limit_reached" -> "stop"
      [] outcome = "recoverable" -> "demote"
      [] OTHER -> "drop"

\* A selection loop that does not break when Peek returns nil.
PeekNoneNoBreak ==
    /\ pc = "wb_select"
    /\ executables = <<>>
    /\ pc' = "wb_select"
    /\ peeks' = peeks + 1
    /\ UNCHANGED <<envVars, runResult, unstakeCalls, daNumber, t, head, pending, tickVars,
                   wbVars, gasLimit, gasPool, executables, successful, poolActs, stopTx,
                   timeVars, daVars>>

\* Peek returned nil: the selection run is over.
PeekNone ==
    /\ pc = "wb_select"
    /\ executables = <<>>
    /\ pc' = "wb_seal"
    /\ peeks' = peeks + 1
    /\ UNCHANGED <<envVars, runResult, unstakeCalls, daNumber, t, head, pending, tickVars,
                   wbVars, gasLimit, gasPool, executables, successful, poolActs, stopTx,
                   timeVars, daVars>>

\* The peeked transaction asks for more gas than the block limit: Drop.
PeekExceeds ==
    /\ pc = "wb_select"
    /\ executables # <<>>
    /\ LET tx == Head(executables) IN
          /\ ExceedsBlockGasLimit(tx, gasLimit)
          /\ pending' = Without(pending, tx)
          /\ poolActs' = Append(poolActs, <<tx, "exceeds", "drop">>)
    /\ executables' = Tail(executables)
    /\ peeks' = peeks + 1
    /\ UNCHANGED <<pc, envVars, runResult, unstakeCalls, daNumber, t, head, tickVars, wbVars,
                   gasLimit, gasPool, successful, stopTx,
                   timeVars, daVars>>

\* The peeked transaction is executed and the pool action follows the result.
PeekWrite ==
    /\ pc = "wb_select"
    /\ executables # <<>>
    /\ LET tx == Head(executables) IN
          /\ ~ExceedsBlockGasLimit(tx, gasLimit)
          /\ \E outcome \in WriteOutcomes(tx, gasPool) :
                LET act == Classify(outcome) IN
                /\ gasPool' = IF outcome = "ok" THEN gasPool - TxGas[tx] ELSE gasPool
                /\ pc' = IF act = "stop" THEN "wb_seal" ELSE "wb_select"
                /\ stopTx' = IF act = "stop" THEN tx ELSE stopTx
                /\ pending' = IF act \in {"pop", "drop"} THEN Without(pending, tx) ELSE pending
                /\ poolActs' = IF act = "stop" THEN poolActs ELSE Append(poolActs, <<tx, outcome, act>>)
                /\ successful' = IF act = "pop" THEN Append(successful, tx) ELSE successful
    /\ executables' = Tail(executables)
    /\ peeks' = peeks + 1
    /\ UNCHANGED <<envVars, runResult, unstakeCalls, daNumber, t, head, tickVars, wbVars,
                   gasLimit,
                   timeVars, daVars>>

\* ------------------------------------------- writeBlock: seal, send, write
\* Commit, BuildBlock and WriteSeal; a sealing error is returned.
Seal ==
    /\ pc = "wb_seal"
    /\ \E err \in BOOLEAN :
          /\ wbResult' = IF err THEN "seal_err" ELSE wbResult
          /\ logged' = IF err THEN logged \cup {"mine"} ELSE logged
          /\ pc' = IF err THEN "select" ELSE "wb_send"
    /\ trace' = trace \o <<"Commit", "WriteSeal">>
    /\ UNCHANGED <<envVars, runResult, unstakeCalls, daNumber, t, head, pending, extraction,
                   edgeBlks, slashResult, staked, sequencers, parent, sendStatus, runVars,
                   seed, poolAtStart,
                   timeVars, daVars>>

\* A writeBlock that writes locally whatever the DA sender returned.
AfterSendIgnoringError(err) == "wb_write"

\* A writeBlock that publishes again when the DA sender returned an error.
AfterSendRetrying(err) == IF err THEN "wb_send" ELSE "wb_write"

\* Where writeBlock goes after SendAndWaitForStatus.
AfterSend(err) == IF err THEN "select" ELSE "wb_write"

\* availSender.SendAndWaitForStatus(blk, in block): blocks until the DA
\* chain acknowledges inclusion or the sender gives up with an error.
SendAndWait ==
    /\ pc = "wb_send"
    /\ \E err \in BOOLEAN :
          /\ sendStatus' = IF err THEN "err" ELSE "ok"
          /\ pc' = AfterSend(err)
          /\ wbResult' = IF AfterSend(err) = "select" THEN "send_err" ELSE wbResult
          /\ logged' = IF AfterSend(err) = "select" THEN logged \cup {"send", "mine"} ELSE logged
    /\ trace' = Append(trace, "SendAndWaitForStatus")
    /\ UNCHANGED <<envVars, runResult, unstakeCalls, daNumber, t, head, pending, extraction,
                   edgeBlks, slashResult, staked, sequencers, parent, runVars,
                   seed, poolAtStart,
                   timeVars, daVars>>

\* The transaction pool is reset only when the local write succeeded.
ResetsPool(writeErr) == ~writeErr

\* blockchain.WriteBlock(blk), then txpool.ResetWithHeaders(blk.Header).
WriteLocal ==
    /\ pc = "wb_write"
    /\ \E err \in BOOLEAN :
          /\ head' = IF err THEN head ELSE parent + 1
          /\ wbResult' = IF err THEN "write_err" ELSE "ok"
          /\ daOnly' = IF err THEN parent + 1 ELSE daOnly
          /\ logged' = IF err THEN logged \cup {"mine"} ELSE logged
          /\ trace' = IF ResetsPool(err) THEN trace \o <<"WriteBlock", "ResetWithHeaders">>
                      ELSE Append(trace, "WriteBlock")
          /\ pending' = IF ResetsPool(err)
                        THEN SelectSeq(pending, LAMBDA x : x \notin Range(successful))
                        ELSE pending
    /\ pc' = "select"
    /\ UNCHANGED <<envVars, runResult, unstakeCalls, daNumber, t, extraction, edgeBlks,
                   slashResult, staked, sequencers, parent, sendStatus, runVars,
                   seed, poolAtStart,
                   timeVars, carried, reextracted>>

\* -------------------------------------------- writeBlock: the timestamp
\* time.Unix(sec, 0) and Time.Unix(), with time counted in half seconds.
TimeUnix(sec) == 2 * sec
Unix(time) == time \div 2

\* A header time that starts from the parent's time without the interval.
HeaderTimestampWithoutInterval(parentTimestamp, interval, n1, n2) ==
    LET headerTime == TimeUnix(parentTimestamp)
    IN Unix(IF headerTime < n1 THEN n2 ELSE headerTime)

\* parentTime.Add(sw.blockTime), replaced by time.Now() when it is before
\* time.Now(); header.Timestamp is its Unix().
HeaderTimestamp(parentTimestamp, interval, n1, n2) ==
    LET headerTime == TimeUnix(parentTimestamp) + TimeUnix(interval)
    IN Unix(IF headerTime < n1 THEN n2 ELSE headerTime)

workerVars == <<pc, builtWith, closeCh, closed, runResult, unstakeCalls, apq, daNumber, t,
                head, pending, tickVars, wbVars, runVars, daVars>>

\* The worker is configured with a block time of whole seconds, at least one,
\* and the first parent is a header of any timestamp.
TimeInit ==
    /\ WorkerInit
    /\ builtWith = "NewSequencer"
    /\ apq = <<nodeAddr>>
    /\ pending = <<>>
    /\ blockTime \in 1..MaxBlockTime
    /\ parentTs \in 0..Unix(MaxClock)
    /\ now1 = 0
    /\ now2 = 0
    /\ headerTs = 0
    /\ stamped = 0

\* writeBlock sets the timestamp of the header it builds on parent.
StampHeader ==
    /\ headerTs = 0
    /\ \E n1 \in 0..MaxClock, n2 \in 0..MaxClock :
          /\ n1 <= n2
          /\ n2 <= n1 + 1
          /\ now1' = n1
          /\ now2' = n2
          /\ headerTs' = HeaderTimestamp(parentTs, blockTime, n1, n2)
    /\ UNCHANGED <<workerVars, blockTime, parentTs, stamped>>

\* The block is written and the next header is built on it.
NextParent ==
    /\ headerTs # 0
    /\ stamped < MaxChain
    /\ parentTs' = headerTs
    /\ headerTs' = 0
    /\ stamped' = stamped + 1
    /\ UNCHANGED <<workerVars, blockTime, now1, now2>>

TimeNext ==
    \/ StampHeader
    \/ NextParent

TimeSpec == TimeInit /\ [][TimeNext]_vars

\* ---------------------------------------------------------- specification
Next ==
    \/ Close
    \/ StakeChange
    \/ RunStart
    \/ WaitForStakedSequencer
    \/ RecvBlock
    \/ FraudCheck
    \/ CheckStaked
    \/ GetSequencersError
    \/ GetSequencersPanic
    \/ MyTurn
    \/ NotMyTurn
    \/ Shutdown
    \/ BuildHeader
    \/ PeekNone
    \/ PeekExceeds
    \/ PeekWrite
    \/ Seal
    \/ SendAndWait
    \/ WriteLocal

Spec == Init /\ [][Next]_vars

\* The steps the worker goroutine takes on its own: it is scheduled whenever
\* it can run, and a select whose close case is ready over and over takes it
\* eventually.  The DA stream is under no obligation to deliver a block.
WorkerStep ==
    \/ RunStart
    \/ WaitForStakedSequencer
    \/ FraudCheck
    \/ CheckStaked
    \/ GetSequencersError
    \/ GetSequencersPanic
    \/ MyTurn
    \/ NotMyTurn
    \/ Shutdown
    \/ BuildHeader
    \/ PeekNone
    \/ PeekExceeds
    \/ PeekWrite
    \/ Seal
    \/ SendAndWait
    \/ WriteLocal

FairSpec == Init /\ [][Next]_vars /\ WF_vars(WorkerStep) /\ SF_vars(Shutdown)

TypeOK ==
    /\ pc \in {"start", "waitForStaked", "select", "fraud", "staked", "get", "panic", "done",
               "wb_build", "wb_select", "wb_seal", "wb_send", "wb_write"}
    /\ head \in 0..(MaxTick * (MaxExtract + 1))
    /\ t = daNumber
    /\ Range(pending) \subseteq Txs

\* ----------------------------------------------------------------- claims
Called(c) == c \in Range(trace)

Before(c, d) == Called(c) /\ Called(d) /\ IndexOf(trace, c) < IndexOf(trace, d)

\* C1: writeBlock calls the local WriteBlock only after SendAndWaitForStatus
\* has returned success for the candidate block, and ResetWithHeaders only
\* after that WriteBlock has returned success; a sender that never reports
\* inclusion therefore never leads to a WriteBlock.
C1_WriteOnlyAfterInclusion ==
    /\ (pc = "wb_write" \/ Called("WriteBlock")) =>
          /\ sendStatus = "ok"
          /\ Called("SendAndWaitForStatus")
          /\ Called("WriteBlock") => Before("SendAndWaitForStatus", "WriteBlock")
    /\ Called("ResetWithHeaders") =>
          /\ wbResult = "ok"
          /\ Before("WriteBlock", "ResetWithHeaders")

C1_Witness ==
    /\ Called("ResetWithHeaders")
    /\ successful # <<>>
    /\ head = parent + 1

\* C2: a production attempt that fails before the DA chain acknowledged
\* inclusion (gas limit, extra data, BeginTxn, sealing or the publish itself)
\* leaves the local head where it was, calls neither WriteBlock nor
\* ResetWithHeaders, and publishes at most once in the tick.
FailedBeforeInclusion ==
    \/ wbResult \in {"gas_err", "extra_err", "begin_err", "seal_err"}
    \/ sendStatus = "err"

C2_AbortLeavesNoLocalCommit ==
    FailedBeforeInclusion =>
        /\ head = parent
        /\ ~Called("WriteBlock")
        /\ ~Called("ResetWithHeaders")
        /\ Count(trace, "SendAndWaitForStatus") <= 1
        /\ pc \in {"select", "done"}

C2_Witness ==
    /\ sendStatus = "err"
    /\ successful # <<>>
    /\ pc = "select"

\* C3: in a tick in which CheckAndSlash returned no error and Contains
\* reported the local address staked, writeBlock is invoked exactly when the
\* set Get returned is headed by the local address; in a tick in which the
\* local address is not staked, writeBlock is not invoked.
C3_ProducesIffHeadOfSet ==
    /\ staked = "yes" =>
          /\ slashResult = "ok"
          /\ Called("writeBlock") <=> (sequencers # <<>> /\ Head(sequencers) = nodeAddr)
    /\ staked # "yes" => ~Called("writeBlock")

C3_Witness ==
    /\ staked = "yes"
    /\ Called("writeBlock")
    /\ Len(sequencers) >= 2

\* C4: for the active set a leader check is evaluated against, exactly one
\* address passes the turn test, so of the nodes that see this set at most
\* one produces, and the local node produces only if it is that one.
Leaders(seq) == {a \in Addresses : IsMyTurn(seq, a)}

C4_ExactlyOneLeader ==
    sequencers # <<>> =>
        /\ Cardinality(Leaders(sequencers)) = 1
        /\ Called("writeBlock") => Leaders(sequencers) = {nodeAddr}

C4_Witness ==
    /\ Len(sequencers) = Cardinality(Addresses)
    /\ Called("writeBlock")

\* C5 as stated: a tick that reaches the leader check while the active set
\* is empty aborts the process whatever the staked query returned.
C5_EmptySetAlwaysAborts ==
    (Called("Contains") /\ staked \in {"no", "err"} /\ apq = <<>>) => pc = "panic"

\* C5 amended: the empty-set check comes last.  A staked-query error or a
\* not-staked result ends the tick before the active set is queried; the
\* process aborts exactly when the local address was reported staked and Get
\* returned, without error, the empty set.
C5_EmptyCheckComesLast ==
    /\ staked \in {"no", "err"} => (~Called("Get") /\ pc # "panic")
    /\ pc = "panic" => (staked = "yes" /\ Called("Get") /\ sequencers = <<>>)
    /\ (Called("Get") /\ "get_err" \notin logged /\ sequencers = <<>>) => pc = "panic"

C5_Witness ==
    /\ pc = "panic"
    /\ staked = "yes"

\* C6: when CheckAndSlash returns an error the tick ends there: Contains,
\* Get and writeBlock are not called, CheckAndSlash is not called again, and
\* the worker is back at the select.
C6_SlashErrorEndsTick ==
    slashResult = "err" =>
        /\ trace = <<"Store", "FromAvail", "CheckAndSetFraudBlock", "CheckAndSlash">>
        /\ pc \in {"select", "done"}
        /\ wbResult = Nil

C6_Witness ==
    /\ slashResult = "err"
    /\ pc = "select"
    /\ nodeAddr \in Range(apq)

\* C7: for a worker built with NewSequencer, once the close signal has been
\* triggered while Run is in its loop, Run eventually unstakes (exactly once)
\* and returns the result of the unstake.
C7_CloseLeadsToUnstake ==
    (builtWith = "NewSequencer" /\ closed /\ pc = "select")
        ~> (pc = "panic" \/ (pc = "done" /\ unstakeCalls = 1 /\ runResult \in {"returned_nil", "unstake_err"}))

\* C8: an extraction that returns no block and ErrNoExtrinsicFound emits no
\* error-severity log, and the tick goes on.
C8_NotFoundIsSilent ==
    (Called("FromAvail") /\ extraction = [n |-> 0, err |-> "ErrNoExtrinsicFound"]) =>
        "extract" \notin logged

\* C9: the gas of the transactions a selection run returns as included never
\* adds up to more than the block gas limit.
C9_IncludedGasWithinLimit ==
    SumGas(successful) <= gasLimit

C9_Witness ==
    /\ Len(successful) >= 2
    /\ stopTx # 0

\* C10: every transaction peeked in a selection run gets exactly one pool
\* action, fixed by its outcome: success pops it and appends it to the
\* included list in peek order, a recoverable failure demotes it, any other
\* failure drops it, and gas limit reached stops the run with the
\* transaction untouched and still pending.
ActsOn(tx) == {i \in 1..Len(poolActs) : poolActs[i][1] = tx}

Popped == SelectSeq(poolActs, LAMBDA e : e[3] = "pop")

C10_OneActionPerOutcome ==
    /\ \A tx \in Txs : Cardinality(ActsOn(tx)) <= 1
    /\ \A i \in 1..Len(poolActs) :
          LET tx == poolActs[i][1]
              outcome == poolActs[i][2]
              act == poolActs[i][3]
          IN /\ outcome = "ok" <=> act = "pop"
             /\ outcome = "recoverable" <=> act = "demote"
             /\ outcome \in {"unknown", "exceeds"} <=> act = "drop"
             /\ act = "demote" => (tx \in Range(pending) /\ tx \notin Range(successful))
             /\ act = "drop" => (tx \notin Range(pending) /\ tx \notin Range(successful))
             /\ act = "pop" => tx \notin Range(pending)
    /\ successful = [i \in 1..Len(Popped) |-> Popped[i][1]]
    /\ stopTx # 0 =>
          /\ ActsOn(stopTx) = {}
          /\ stopTx \in Range(pending)
          /\ stopTx \notin Range(successful)
          /\ pc # "wb_select"

C10_Witness ==
    /\ stopTx # 0
    /\ \E i \in 1..Len(poolActs) : poolActs[i][3] = "pop"
    /\ \E i \in 1..Len(poolActs) : poolActs[i][3] = "demote"

\* C11 as stated: a peeked transaction whose gas exceeds the gas left in the
\* block is dropped and selection goes on; with pending gas [50, 60, 5] and
\* limit 100 and no application failure, tx1 and tx3 are included and tx2 is
\* dropped.
SelectionOver == peeks > 0 /\ pc # "wb_select"

NoApplicationFailure ==
    \A i \in 1..Len(poolActs) : poolActs[i][2] \notin {"recoverable", "unknown"}

C11_OverflowIsDropped ==
    (poolAtStart = <<1, 2, 3>> /\ gasLimit = 100 /\ SelectionOver /\ NoApplicationFailure) =>
        /\ successful = <<1, 3>>
        /\ \E i \in 1..Len(poolActs) : poolActs[i][1] = 2 /\ poolActs[i][3] = "drop"

\* C11 amended: overflow is tested against the whole block gas limit.  A
\* transaction over the block limit is dropped and selection goes on; one
\* that fits the block limit but not the gas left is executed, and when it
\* fails with gas limit reached the run stops and it stays pending.  With
\* [50, 60, 5] and limit 100, once tx1 is included tx2 is neither included
\* nor dropped for overflow, and a run stopped at tx2 includes tx1 alone and
\* leaves tx2 and tx3 pending.
C11_OverflowAgainstBlockLimit ==
    /\ \A i \in 1..Len(poolActs) :
          poolActs[i][2] = "exceeds" =>
              (TxGas[poolActs[i][1]] > gasLimit /\ poolActs[i][3] = "drop")
    /\ stopTx # 0 =>
          /\ TxGas[stopTx] <= gasLimit
          /\ TxGas[stopTx] > gasPool
          /\ stopTx \in Range(pending)
          /\ SelectionOver
    /\ (poolAtStart = <<1, 2, 3>> /\ gasLimit = 100 /\ 1 \in Range(successful)) =>
          /\ 2 \notin Range(successful)
          /\ \A i \in 1..Len(poolActs) : poolActs[i][1] = 2 => poolActs[i][2] # "exceeds"
          /\ stopTx = 2 =>
                (successful = <<1>> /\ ActsOn(3) = {} /\ {2, 3} \subseteq Range(pending))

C11_Witness ==
    /\ poolAtStart = <<1, 2, 3>>
    /\ successful = <<1>>
    /\ stopTx = 2
    /\ pc = "wb_seal"

\* C13 as stated: with the active set [A, B, C] the local node B is the
\* leader and produces; with [C, A, B] the leader is C and B does not produce.
C13_ScenarioLeaderB ==
    /\ sequencers = <<"A", "B", "C">> => Called("writeBlock")
    /\ sequencers = <<"C", "A", "B">> => ~Called("writeBlock")

\* C13 amended: the leader is the first element of the set.  With [A, B, C]
\* the leader is A and the local node B does not produce; with [C, A, B] the
\* leader is C and B does not produce either.
C13_ScenarioLeaderIsFirst ==
    /\ sequencers = <<"A", "B", "C">> =>
          (Leaders(sequencers) = {"A"} /\ ~Called("writeBlock") /\ pc \in {"select", "done"})
    /\ sequencers = <<"C", "A", "B">> =>
          (Leaders(sequencers) = {"C"} /\ ~Called("writeBlock") /\ pc \in {"select", "done"})

C13_Witness ==
    /\ daNumber = 2
    /\ staked = "yes"
    /\ sequencers = <<"C", "A", "B">>

\* C14: with DA block numbers delivered in strictly increasing order, after
\* each tick t holds the highest number received; the store is the first
\* call of the tick and happens once, and the value the registry querier
\* loads in the tick is that number.
C14_ClockIsLastBlockNumber ==
    /\ t = daNumber
    /\ daNumber > 0 => (trace[1] = "Store" /\ Count(trace, "Store") = 1)
    /\ seed # 0 => (seed = daNumber /\ Before("Store", "Contains"))

C14_Witness ==
    /\ daNumber >= 2
    /\ seed = daNumber
    /\ Called("Get")

\* C15 as stated: in every tick CheckAndSetFraudBlock and then CheckAndSlash
\* are called once each, whatever the extraction returned.
C15_FraudChecksEveryTick ==
    (Called("FromAvail") /\ pc # "fraud") =>
        /\ Count(trace, "CheckAndSetFraudBlock") = 1
        /\ Count(trace, "CheckAndSlash") = 1

\* C15 amended: in every tick whose extraction returned blocks or found
\* nothing, CheckAndSetFraudBlock and then CheckAndSlash are called once
\* each, before any leader check or production; a tick whose extraction
\* returned no block and a decode error ends after the extraction and calls
\* neither.
DecodeFailure == extraction.n = 0 /\ extraction.err = "decode"

C15_FraudChecksUnlessDecodeError ==
    /\ (Called("FromAvail") /\ pc # "fraud" /\ ~DecodeFailure) =>
          /\ Len(trace) >= 4
          /\ SubSeq(trace, 1, 4) = <<"Store", "FromAvail", "CheckAndSetFraudBlock", "CheckAndSlash">>
          /\ Count(trace, "CheckAndSetFraudBlock") = 1
          /\ Count(trace, "CheckAndSlash") = 1
    /\ (Called("FromAvail") /\ DecodeFailure) =>
          (trace = <<"Store", "FromAvail">> /\ pc \in {"select", "done"})

C15_Witness ==
    /\ extraction.err = "ErrNoExtrinsicFound"
    /\ Called("writeBlock")

\* C16: no error of a tick ends or stalls the loop.  After a decode error, a
\* CheckAndSlash error, a staked-query error, an active-set query error, a
\* not-staked result or a failed production attempt the worker is back at
\* the select; Run returns from the loop only through the close case, and
\* the process aborts only on the empty active set.
TickFailed ==
    \/ (Called("FromAvail") /\ DecodeFailure)
    \/ slashResult = "err"
    \/ staked \in {"err", "no"}
    \/ "get_err" \in logged
    \/ wbResult \notin {Nil, "ok"}

C16_ErrorsKeepTheLoopRunning ==
    /\ TickFailed => pc \in {"select", "done"}
    /\ pc = "done" =>
          \/ (runResult \in {"balance_err", "callidx_err"} /\ daNumber = 0 /\ unstakeCalls = 0)
          \/ (runResult \in {"returned_nil", "unstake_err"} /\ closed /\ unstakeCalls = 1)
    /\ pc = "panic" => (Called("Get") /\ sequencers = <<>>)

C16_Witness ==
    /\ "get_err" \in logged
    /\ pc = "select"
    /\ daNumber < MaxTick

\* C18: a production attempt runs from its start to its return before the
\* worker observes anything else: during it no further DA block is received,
\* the close signal is not acted on and no second attempt starts; unstake is
\* issued only from the select.
InAttempt == pc \in {"wb_build", "wb_select", "wb_seal", "wb_send", "wb_write"}

C18_AttemptIsNotPreempted ==
    [][/\ InAttempt =>
             /\ daNumber' = daNumber
             /\ unstakeCalls' = unstakeCalls
             /\ pc' # "done"
             /\ Count(trace', "writeBlock") = 1
       /\ unstakeCalls' # unstakeCalls => pc = "select"]_vars

C18_Witness ==
    /\ pc = "wb_send"
    /\ CloseReady(closeCh, closed)
    /\ successful # <<>>

\* C19: after a production attempt that failed before DA inclusion every
\* transaction that was pending before the attempt is still pending.
C19_AbortKeepsPool ==
    FailedBeforeInclusion => Range(poolAtStart) \subseteq Range(pending)

Later(a, b) == IF a > b THEN a ELSE b

C17_LocalWriteFailureSelfHeals ==
    /\ wbResult = "write_err" =>
          /\ sendStatus = "ok"
          /\ ~Called("ResetWithHeaders")
          /\ "mine" \in logged
          /\ pc = "select"
    /\ carried # 0 /\ Called("CheckAndSetFraudBlock") =>
          /\ reextracted = "written"
          /\ head >= carried

====
